---- MODULE Spec2Model ----
(***************************************************************************)
(* Model of src/models/variationalautoencoder.py: the construction of the  *)
(* encoder/decoder layer stacks with their shape arithmetic, the sampling  *)
(* layer, and the compile / train / save / load lifecycle of a             *)
(* VariationalAutoencoder object together with the save folder it uses.    *)
(***************************************************************************)
EXTENDS Integers, Sequences, FiniteSets, TLC

\* ------------------------------------------------------------------ bounds
MaxDim == 3        \* input height and width range over 1..MaxDim
MaxStride == 2     \* strides range over 1..MaxStride
MaxLayers == 2     \* filters, kernels and strides have 0..MaxLayers entries
MaxWeight == 2     \* a network's weights take a value in 0..MaxWeight-1
MaxAbs == 1        \* elements of mu and eps range over -MaxAbs..MaxAbs
MaxLog == 1        \* elements of sigma range over 2*ln(2)*(0..MaxLog)

Channels == {1, 3}       \* input channel depths
FilterCounts == {1, 2}   \* filter counts
KernelSizes == {1, 3}    \* kernel sizes
LatentDims == {1, 2}     \* latent_space_shape values

NoModel == [none |-> TRUE]       \* Python's None
NoParams == << >>                \* params.pkl is not in the folder
NoWeights == [absent |-> TRUE]   \* weights.h5 is not in the folder

\* ------------------------------------------------- sequences and shapes
RECURSIVE prod(_)
\* np.prod of a shape tuple
prod(shape) == IF shape = <<>> THEN 1 ELSE Head(shape) * prod(Tail(shape))

\* conv_output_length rounding down instead of up.
conv_output_length_floor(input_length, stride) == input_length \div stride

\* Output length of a padding='same' convolution along one axis.
conv_output_length(input_length, stride) == (input_length + stride - 1) \div stride

\* Output length of a padding='same' transposed convolution along one axis.
deconv_output_length(input_length, stride) == input_length * stride

\* Conv2D with padding='valid' in place of 'same'.
Conv2D_valid(x, filters, kernel_size, strides) ==
    << (x[1] - kernel_size) \div strides + 1, (x[2] - kernel_size) \div strides + 1,
       filters >>

\* K.int_shape(Conv2D(filters, kernel_size, strides, padding='same')(x))[1:]
Conv2D(x, filters, kernel_size, strides) ==
    << conv_output_length(x[1], strides), conv_output_length(x[2], strides), filters >>

\* K.int_shape(Conv2DTranspose(filters, kernel_size, strides, padding='same')(x))[1:]
Conv2DTranspose(x, filters, kernel_size, strides) ==
    << deconv_output_length(x[1], strides), deconv_output_length(x[2], strides), filters >>

\* One layer of a network: its class, its name (prefix and number), its
\* constructor arguments, and the shapes of the tensor it takes and gives.
Layer(kind, name, args, inp, out) ==
    [kind |-> kind, name |-> name, args |-> args, inp |-> inp, out |-> out]

\* The shape of a layer's kernel (<<>> for a layer without weights).
WeightShape(layer) ==
    CASE layer.kind = "Conv2D" ->
            << layer.args[2], layer.args[2], layer.inp[3], layer.args[1] >>
      [] layer.kind = "Conv2DTranspose" ->
            << layer.args[2], layer.args[2], layer.args[1], layer.inp[3] >>
      [] layer.kind = "Dense" -> << prod(layer.inp), layer.args[1] >>
      [] layer.kind = "BatchNormalization" -> << layer.inp[3] >>
      [] OTHER -> << >>

\* The kernel shapes of a network, layer by layer: what a weight file must match.
WeightShapes(layers) == [i \in 1..Len(layers) |-> WeightShape(layers[i])]

\* ------------------------------------------------------------ build_encoder
\* The three layers one pass of the encoder loop adds for its 0-based index l:
\* Conv2D(filters[l], kernels[l], strides[l], padding='same'), ReLU and
\* BatchNormalization, x being the shape of the tensor they are applied to.
encoder_block(self, l, x, y) ==
    << Layer("Conv2D", << "encoder_conv_layer", l + 1 >>,
             << self.filters[l + 1], self.kernels[l + 1], self.strides[l + 1] >>, x, y),
       Layer("ReLU", << "encoder_relu", l + 1 >>, << >>, y, y),
       Layer("BatchNormalization", << "encoder_bn", l + 1 >>, << >>, y, y) >>

RECURSIVE encoder_conv_layers(_, _, _, _)
\* The loop "for l in range(self.n_conv_layers)" of build_encoder, from its
\* 0-based index l on, x being the shape of the tensor built so far.
encoder_conv_layers(self, l, x, layers) ==
    IF l >= self.n_conv_layers
    THEN [err |-> "none", layers |-> layers, x |-> x]
    ELSE IF l + 1 > Len(self.kernels) \/ l + 1 > Len(self.strides)
    THEN [err |-> "IndexError", layers |-> layers, x |-> x]
    ELSE encoder_conv_layers(self, l + 1,
            Conv2D(x, self.filters[l + 1], self.kernels[l + 1], self.strides[l + 1]),
            layers \o encoder_block(self, l, x,
                Conv2D(x, self.filters[l + 1], self.kernels[l + 1], self.strides[l + 1])))

\* The end of build_encoder: Flatten, the two Dense layers mu and sigma and
\* the Lambda layer, shape_before_ls being the shape the loop ended with.
encoder_latent_space(latent, shape_before_ls, flat) ==
    << Layer("Flatten", << "flatten", 0 >>, << >>, shape_before_ls, flat),
       Layer("Dense", << "mu", 0 >>, latent, flat, latent),
       Layer("Dense", << "sigma", 0 >>, latent, flat, latent),
       Layer("Lambda", << "encoder_output", 0 >>, << >>, latent, latent) >>

\* build_encoder after its loop gave convs.
encoder_of(self, convs) ==
    IF convs.err # "none"
    THEN [err |-> convs.err, encoder |-> convs.layers, shape_before_ls |-> << >>]
    ELSE [err |-> "none",
          encoder |-> convs.layers \o encoder_latent_space(<< self.latent_space_shape >>,
                                                           convs.x, << prod(convs.x) >>),
          shape_before_ls |-> convs.x]

\* build_encoder: the layers of the encoder and self.shape_before_ls.
build_encoder(self) ==
    encoder_of(self, encoder_conv_layers(self, 0, self.input_shape,
        << Layer("Input", << "encoder_input", 0 >>, << >>,
                 self.input_shape, self.input_shape) >>))

\* ------------------------------------------------------------ build_decoder
\* The three layers one pass of the decoder loop adds for its 0-based index l:
\* Conv2DTranspose(filters[l], kernels[l], strides[l], padding="same"), ReLU
\* and BatchNormalization.
decoder_block(self, l, x, y) ==
    << Layer("Conv2DTranspose", << "decoder_conv_transpose_layer", self.n_conv_layers - l >>,
             << self.filters[l + 1], self.kernels[l + 1], self.strides[l + 1] >>, x, y),
       Layer("ReLU", << "decoder_relu", self.n_conv_layers - l >>, << >>, y, y),
       Layer("BatchNormalization", << "decoder_bn", self.n_conv_layers - l >>, << >>, y, y) >>

RECURSIVE decoder_conv_layers(_, _, _, _)
\* The loop "for l in reversed(range(1, self.n_conv_layers))" of build_decoder,
\* from its 0-based index l down to 1.
decoder_conv_layers(self, l, x, layers) ==
    IF l < 1
    THEN [err |-> "none", layers |-> layers, x |-> x]
    ELSE IF l + 1 > Len(self.kernels) \/ l + 1 > Len(self.strides)
    THEN [err |-> "IndexError", layers |-> layers, x |-> x]
    ELSE decoder_conv_layers(self, l - 1,
            Conv2DTranspose(x, self.filters[l + 1], self.kernels[l + 1], self.strides[l + 1]),
            layers \o decoder_block(self, l, x,
                Conv2DTranspose(x, self.filters[l + 1], self.kernels[l + 1],
                                self.strides[l + 1])))

\* decoder_output_block giving the output the channel depth of input_shape.
decoder_output_block_input_depth(self, x, y) ==
    << Layer("Conv2DTranspose", << "decoder_conv_transpose_layer", self.n_conv_layers >>,
             << self.input_shape[3], self.kernels[1], self.strides[1] >>, x,
             << y[1], y[2], self.input_shape[3] >>),
       Layer("Activation", << "sigmoid_layer", 0 >>, << >>,
             << y[1], y[2], self.input_shape[3] >>, << y[1], y[2], self.input_shape[3] >>) >>

\* The two layers of the output block: Conv2DTranspose(filters=1, kernels[0],
\* strides[0], padding="same") and the sigmoid.
decoder_output_block(self, x, y) ==
    << Layer("Conv2DTranspose", << "decoder_conv_transpose_layer", self.n_conv_layers >>,
             << 1, self.kernels[1], self.strides[1] >>, x, y),
       Layer("Activation", << "sigmoid_layer", 0 >>, << >>, y, y) >>

\* build_decoder after its loop gave convs: the output block.
decoder_of(self, convs) ==
    IF convs.err # "none"
    THEN [err |-> convs.err, decoder |-> convs.layers]
    ELSE IF Len(self.kernels) < 1 \/ Len(self.strides) < 1
    THEN [err |-> "IndexError", decoder |-> convs.layers]
    ELSE [err |-> "none",
          decoder |-> convs.layers \o decoder_output_block(self, convs.x,
              Conv2DTranspose(convs.x, 1, self.kernels[1], self.strides[1]))]

\* The start of build_decoder: Input, Dense(np.prod(shape_before_ls)), Reshape.
decoder_input(latent, shape_before_ls, flat) ==
    << Layer("Input", << "decoder_input", 0 >>, << >>, latent, latent),
       Layer("Dense", << "decoder_dense", 0 >>, flat, latent, flat),
       Layer("Reshape", << "reshape", 0 >>, << >>, flat, shape_before_ls) >>

\* build_decoder: the layers of the decoder, given self.shape_before_ls.
build_decoder(self, shape_before_ls) ==
    decoder_of(self, decoder_conv_layers(self, self.n_conv_layers - 1, shape_before_ls,
        decoder_input(<< self.latent_space_shape >>, shape_before_ls,
                      << prod(shape_before_ls) >>)))

\* The shape of the tensor a network gives: its last layer's output shape.
output_shape(layers) == layers[Len(layers)].out

\* ------------------------------------------------------------ the sampling layer
\* sigma is held in units of ln(2), in even multiples, so that K.exp(sigma / 2)
\* is exact: exp((j * ln 2) / 2) = 2^(j / 2).
exp(x) == 2 ^ x

\* normal_distribution scaling eps by sigma / 2 itself, K.exp left out.
normal_distribution_no_exp(mu, sigma, eps) ==
    [i \in 1..Len(mu) |-> mu[i] + (sigma[i] \div 2) * eps[i]]

\* normal_distribution((mu, sigma)) of build_encoder with the draw eps of
\* K.random_normal(shape=K.shape(self.mu)): z = mu + K.exp(sigma / 2) * eps.
normal_distribution(mu, sigma, eps) ==
    [i \in 1..Len(mu) |-> mu[i] + exp(sigma[i] \div 2) * eps[i]]

\* ------------------------------------------------------------------ __init__
\* The model's weights: one value for each of the two networks of self.model.
Weights == [encoder : 0..(MaxWeight - 1), decoder : 0..(MaxWeight - 1)]

\* What a call of the constructor or of load gives: the exception it raised
\* ("none" when it returned), the object it returned, the methods it entered
\* and the number of layers it constructed.
Outcome(err, obj, log, layers) ==
    [err |-> err, obj |-> obj, log |-> log, layers |-> layers]

\* build_vae: self.model = Model(self.input, self.decoder(self.encoder(self.input))),
\* with the weights w0 its initializers drew; the constructor returns.
build_vae(self, enc, dec, w0) ==
    Outcome("none",
            [input_shape |-> self.input_shape, filters |-> self.filters,
             kernels |-> self.kernels, strides |-> self.strides,
             latent_space_shape |-> self.latent_space_shape,
             n_conv_layers |-> self.n_conv_layers,
             shape_before_ls |-> enc.shape_before_ls,
             encoder |-> enc.encoder, decoder |-> dec.decoder,
             model |-> [output_shape |-> output_shape(dec.decoder), weights |-> w0,
                        compiled |-> FALSE]],
            << "__init__", "build_model", "build_encoder", "build_decoder", "build_vae" >>,
            Len(enc.encoder) + Len(dec.decoder))

\* build_model after build_decoder gave dec.
build_model_decoder(self, enc, dec, w0) ==
    IF dec.err # "none"
    THEN Outcome(dec.err, NoModel,
                 << "__init__", "build_model", "build_encoder", "build_decoder" >>,
                 Len(enc.encoder) + Len(dec.decoder))
    ELSE build_vae(self, enc, dec, w0)

\* build_model after build_encoder gave enc.
build_model_encoder(self, enc, w0) ==
    IF enc.err # "none"
    THEN Outcome(enc.err, NoModel, << "__init__", "build_model", "build_encoder" >>,
                 Len(enc.encoder))
    ELSE build_model_decoder(self, enc, build_decoder(self, enc.shape_before_ls), w0)

\* build_model: build_encoder, build_decoder, build_vae.
build_model(self, w0) == build_model_encoder(self, build_encoder(self), w0)

\* The two assert statements of __init__, which run when __debug__ is true.
asserts_hold(self, assertions) ==
    assertions => /\ Len(self.kernels) = self.n_conv_layers
                  /\ Len(self.strides) = self.n_conv_layers

\* __init__ after its assignments to self.
init(self, assertions, w0) ==
    IF ~ asserts_hold(self, assertions)
    THEN Outcome("AssertionError", NoModel, << "__init__" >>, 0)
    ELSE build_model(self, w0)

\* VariationalAutoencoder(*params) with __debug__ = assertions.
VariationalAutoencoder(params, assertions, w0) ==
    init([input_shape |-> params[1], filters |-> params[2], kernels |-> params[3],
          strides |-> params[4], latent_space_shape |-> params[5],
          n_conv_layers |-> Len(params[2])], assertions, w0)

\* ------------------------------------------------------------------- state
VARIABLES
    debug,    \* Python's __debug__: FALSE when the interpreter runs with -O
    vae,      \* the VariationalAutoencoder object the caller holds, or None
    folder,   \* the save folder: the contents of params.pkl and of weights.h5
    last,     \* the last call: method, arguments, exception, steps taken
    sample    \* the tensors of the last call of the sampling layer

vars == << debug, vae, folder, last, sample >>

\* The record of a call: the method, the constructor arguments, the exception
\* raised ("none" when it returned), the methods and file operations it
\* entered, and the number of layers it constructed.
Call(op, args, err, log, layers) ==
    [op |-> op, args |-> args, err |-> err, log |-> log, layers |-> layers]

NoSample == [mu |-> << >>, sigma |-> << >>, eps |-> << >>, z |-> << >>]

\* ------------------------------------------------------------ configurations
\* The constructor arguments (input_shape, filters, kernels, strides,
\* latent_space_shape) with n filters, n kernels and n strides.
ValidConfigs(n) ==
    { << << h, w, c >>, f, k, st, d >> :
        h \in 1..MaxDim, w \in 1..MaxDim, c \in Channels,
        f \in [1..n -> FilterCounts], k \in [1..n -> KernelSizes],
        st \in [1..n -> 1..MaxStride], d \in LatentDims }

\* Constructor arguments with a filters, b kernels and c strides.
MismatchedConfig(a, b, c) ==
    << << MaxDim, MaxDim, 1 >>, [i \in 1..a |-> 1], [i \in 1..b |-> 3],
       [i \in 1..c |-> MaxStride], 1 >>

\* The end-to-end scenario: 28x28 grayscale input, two layers.
ScenarioConfig == << << 28, 28, 1 >>, << 32, 64 >>, << 3, 3 >>, << 1, 2 >>, 2 >>

\* The configurations of the lifecycle specification.
LifeConfigs ==
    { << << 2, 2, 1 >>, << 1 >>, << 3 >>, << 2 >>, 1 >>,
      << << 3, 3, 1 >>, << 2, 1 >>, << 3, 1 >>, << 1, 2 >>, 2 >>,
      << << 2, 2, 1 >>, << 1 >>, << 3, 3 >>, << 2, 1 >>, 1 >>,
      << << 2, 2, 1 >>, << 1, 1 >>, << 3 >>, << 2 >>, 1 >>,
      << << 2, 2, 1 >>, << >>, << >>, << >>, 1 >> }

ZeroWeights == [encoder |-> 0, decoder |-> 0]

\* ---------------------------------------------------------------- save / load
\* params_of listing strides before kernels.
params_of_reordered(self) ==
    << self.input_shape, self.filters, self.strides, self.kernels,
       self.latent_space_shape >>

\* The list save pickles into params.pkl.
params_of(self) ==
    << self.input_shape, self.filters, self.kernels, self.strides,
       self.latent_space_shape >>

\* What self.model.save_weights writes into weights.h5: for each network of
\* the model, its kernel shapes and its weights.
save_weights(self) ==
    [encoder |-> [shapes |-> WeightShapes(self.encoder),
                  value |-> self.model.weights.encoder],
     decoder |-> [shapes |-> WeightShapes(self.decoder),
                  value |-> self.model.weights.decoder]]

\* load_weights skipping a weights.h5 that is not there.
load_weights_if_present(self, h5) ==
    IF h5 = NoWeights
    THEN [err |-> "none", weights |-> self.model.weights]
    ELSE IF h5.encoder.shapes # WeightShapes(self.encoder)
            \/ h5.decoder.shapes # WeightShapes(self.decoder)
    THEN [err |-> "ValueError", weights |-> self.model.weights]
    ELSE [err |-> "none",
          weights |-> [encoder |-> h5.encoder.value, decoder |-> h5.decoder.value]]

\* vae.model.load_weights(path) on a file holding h5: the exception raised and
\* the model's weights afterwards.
load_weights(self, h5) ==
    IF h5 = NoWeights
    THEN [err |-> "OSError", weights |-> self.model.weights]
    ELSE IF h5.encoder.shapes # WeightShapes(self.encoder)
            \/ h5.decoder.shapes # WeightShapes(self.decoder)
    THEN [err |-> "ValueError", weights |-> self.model.weights]
    ELSE [err |-> "none",
          weights |-> [encoder |-> h5.encoder.value, decoder |-> h5.decoder.value]]

\* load_return handing back the object as built, the loaded weights dropped.
load_return_as_built(built, loaded) ==
    IF loaded.err # "none"
    THEN Outcome(loaded.err, NoModel,
                 << "open params.pkl" >> \o built.log \o << "load_weights" >>, built.layers)
    ELSE Outcome("none", built.obj,
                 << "open params.pkl" >> \o built.log \o << "load_weights", "return" >>,
                 built.layers)

\* The end of load: load_weights gave loaded; vae is returned.
load_return(built, loaded) ==
    IF loaded.err # "none"
    THEN Outcome(loaded.err, NoModel,
                 << "open params.pkl" >> \o built.log \o << "load_weights" >>, built.layers)
    ELSE Outcome("none", [built.obj EXCEPT !.model.weights = loaded.weights],
                 << "open params.pkl" >> \o built.log \o << "load_weights", "return" >>,
                 built.layers)

\* load after vae = VariationalAutoencoder(*params) gave built.
load_built(built, h5) ==
    IF built.err # "none"
    THEN Outcome(built.err, NoModel, << "open params.pkl" >> \o built.log, built.layers)
    ELSE load_return(built, load_weights(built.obj, h5))

\* VariationalAutoencoder.load(folder): the exception raised, the object
\* returned and the steps taken.
load_from(dir, assertions, w0) ==
    IF dir.params = NoParams
    THEN Outcome("FileNotFoundError", NoModel, << "open params.pkl" >>, 0)
    ELSE load_built(VariationalAutoencoder(dir.params, assertions, w0), dir.weights)

\* The folders a run may find: missing, or holding either file, both or none,
\* as earlier runs or the user left them.
InitFolders ==
    LET objs == { VariationalAutoencoder(c, TRUE, ZeroWeights).obj : c \in LifeConfigs }
                    \ {NoModel}
    IN  { [exists |-> FALSE, params |-> NoParams, weights |-> NoWeights] }
        \cup [exists : {TRUE},
              params : {NoParams} \cup LifeConfigs,
              weights : {NoWeights} \cup { save_weights(o) : o \in objs }]

\* ----------------------------------------------------------------- actions
\* The caller's "vae = ..." around a constructor or load call that gave r:
\* the name is bound when the call returns, and left alone when it raises.
Returned(op, args, r) ==
    /\ vae' = IF r.err = "none" THEN r.obj ELSE vae
    /\ last' = Call(op, args, r.err, r.log, r.layers)

\* vae = VariationalAutoencoder(*params), the initializers drawing w0
Construct(params, w0) ==
    /\ Returned("__init__", params, VariationalAutoencoder(params, debug, w0))
    /\ UNCHANGED << debug, folder, sample >>

\* vae.compile(learning_rate)
compile ==
    /\ vae # NoModel
    /\ vae' = [vae EXCEPT !.model.compiled = TRUE]
    /\ last' = Call("compile", << >>, "none", << "model.compile" >>, 0)
    /\ UNCHANGED << debug, folder, sample >>

\* train fitting a model whether it was compiled or not.
train_uncompiled(w) ==
    /\ vae # NoModel
    /\ vae' = [vae EXCEPT !.model.weights = w]
    /\ last' = Call("train", << >>, "none", << "model.fit" >>, 0)
    /\ UNCHANGED << debug, folder, sample >>

\* vae.train(x_train, y_train, batch_size, num_epochs), the fit leaving the
\* model with the weights w.
train(w) ==
    /\ vae # NoModel
    /\ IF vae.model.compiled
       THEN /\ vae' = [vae EXCEPT !.model.weights = w]
            /\ last' = Call("train", << >>, "none", << "model.fit" >>, 0)
       ELSE /\ vae' = vae
            /\ last' = Call("train", << >>, "RuntimeError", << "model.fit" >>, 0)
    /\ UNCHANGED << debug, folder, sample >>

\* vae.save(folder)
save ==
    /\ vae # NoModel
    /\ folder' = [exists |-> TRUE, params |-> params_of(vae),
                  weights |-> save_weights(vae)]
    /\ last' = Call("save", << >>, "none",
                    (IF folder.exists THEN << >> ELSE << "makedirs" >>)
                        \o << "pickle.dump", "save_weights" >>, 0)
    /\ UNCHANGED << debug, vae, sample >>

\* vae = VariationalAutoencoder.load(folder), the initializers drawing w0
load(w0) ==
    /\ Returned("load", << >>, load_from(folder, debug, w0))
    /\ UNCHANGED << debug, folder, sample >>

\* One call of the sampling layer on mu and sigma, eps being the draw.
Sample(eps) ==
    /\ Len(eps) = Len(sample.mu)
    /\ sample' = [sample EXCEPT !.eps = eps,
                                !.z = normal_distribution(sample.mu, sample.sigma, eps)]
    /\ UNCHANGED << debug, vae, folder, last >>

\* ------------------------------------------------------------ specifications
NoCall == Call("none", << >>, "none", << >>, 0)

\* The lifecycle of the object and of the save folder.
Init ==
    /\ debug \in BOOLEAN
    /\ vae = NoModel
    /\ folder \in InitFolders
    /\ last = NoCall
    /\ sample = NoSample

Next ==
    \/ \E c \in LifeConfigs, w \in Weights : Construct(c, w)
    \/ compile
    \/ \E w \in Weights : train(w)
    \/ save
    \/ \E w \in Weights : load(w)

Spec == Init /\ [][Next]_vars

\* The construction alone, over every configuration of the bounds.
InitBuild ==
    /\ debug \in BOOLEAN
    /\ vae = NoModel
    /\ folder = [exists |-> FALSE, params |-> NoParams, weights |-> NoWeights]
    /\ last = NoCall
    /\ sample = NoSample

NextBuild ==
    /\ last = NoCall
    /\ \/ \E n \in 0..MaxLayers : \E c \in ValidConfigs(n) : Construct(c, ZeroWeights)
       \/ \E a \in 0..MaxLayers, b \in 0..MaxLayers, c \in 0..MaxLayers :
            /\ ~ (a = b /\ a = c)
            /\ Construct(MismatchedConfig(a, b, c), ZeroWeights)
       \/ Construct(ScenarioConfig, ZeroWeights)

SpecBuild == InitBuild /\ [][NextBuild]_vars

\* The sampling layer alone, over the tensors of the bounds.
Elements == (0 - MaxAbs)..MaxAbs
LogVariances == { 2 * j : j \in 0..MaxLog }

InitSample ==
    /\ debug \in BOOLEAN
    /\ vae = NoModel
    /\ folder = [exists |-> FALSE, params |-> NoParams, weights |-> NoWeights]
    /\ last = NoCall
    /\ \E d \in LatentDims :
         sample \in [mu : [1..d -> Elements], sigma : [1..d -> LogVariances],
                     eps : {<< >>}, z : {<< >>}]

NextSample ==
    /\ sample.z = << >>
    /\ \E d \in LatentDims : \E eps \in [1..d -> Elements] : Sample(eps)

SpecSample == InitSample /\ [][NextSample]_vars

\* ================================================================== claims
\* The constructor arguments of a call have as many kernels and strides as filters.
SameLengths(args) == Len(args[3]) = Len(args[2]) /\ Len(args[4]) = Len(args[2])

\* The five Configuration fields of an object, in the order of the constructor.
ConfigurationOf(self) ==
    << self.input_shape, self.filters, self.kernels, self.strides,
       self.latent_space_shape >>

\* The layers of one class among the layers of a network, in order.
LayersOfKind(layers, kind) == SelectSeq(layers, LAMBDA layer : layer.kind = kind)

Reverse(seq) == [i \in 1..Len(seq) |-> seq[Len(seq) + 1 - i]]

\* a / b rounded up: the least q with q * b >= a.
Ceil(a, b) == CHOOSE q \in 0..a : q * b >= a /\ (q - 1) * b < a

RECURSIVE SizeAfter(_, _, _)
\* h_n of the recurrence h_0 = size, h_(l+1) = ceil(h_l / strides[l]).
SizeAfter(size, strides, n) ==
    IF n = 0 THEN size ELSE Ceil(SizeAfter(size, strides, n - 1), strides[n])

RECURSIVE ProductOf(_, _)
\* The product of the first n strides.
ProductOf(strides, n) == IF n = 0 THEN 1 ELSE strides[n] * ProductOf(strides, n - 1)

\* Every one of the first n strides divides the size it is applied to.
EveryStrideDivides(size, strides, n) ==
    \A l \in 1..n : SizeAfter(size, strides, l - 1) % strides[l] = 0

\* ------------------------------------------------------------------------ C1
\* C1: for every configuration with equally long filters, kernels and strides,
\* the shape of the composite model's output equals input_shape in height,
\* width and channel depth.
C1_OutputShapeEqualsInputShape ==
    (last.op = "__init__" /\ SameLengths(last.args) /\ vae # NoModel)
        => vae.model.output_shape = vae.input_shape

\* ------------------------------------------------------------------------ C2
\* The exception of the length check of __init__, which the specification
\* calls ConfigurationError.
ConfigurationError == "AssertionError"

\* C2: a constructor call whose kernels or strides differ in number from its
\* filters raises the length check's error before any layer is constructed:
\* build_encoder, build_decoder and build_vae are never entered, and no built
\* network is assigned.
C2_MismatchRaisesBeforeAnyLayer ==
    (last.op = "__init__" /\ ~ SameLengths(last.args))
        => /\ last.err = ConfigurationError
           /\ last.layers = 0
           /\ \A i \in 1..Len(last.log) :
                last.log[i] \notin {"build_encoder", "build_decoder", "build_vae"}
           /\ vae = NoModel

\* ------------------------------------------------------------------------ C6
\* C6 as stated: the scenario (28,28,1), [32,64], [3,3], [1,2], 2 gives a
\* shape_before_ls of spatial dims (28,14) and a decoder output of (28,28,1).
C6_ScenarioAsStated ==
    (last.args = ScenarioConfig /\ vae # NoModel)
        => /\ << vae.shape_before_ls[1], vae.shape_before_ls[2] >> = << 28, 14 >>
           /\ output_shape(vae.decoder) = << 28, 28, 1 >>

\* C6 amended: the scenario gives a shape_before_ls of spatial dims (14,14),
\* the stride-2 layer halving both 28s, and a decoder output of (28,28,1).
C6_ScenarioShapes ==
    (last.args = ScenarioConfig /\ last.op = "__init__")
        => /\ vae # NoModel
           /\ vae.shape_before_ls = << 14, 14, 64 >>
           /\ output_shape(vae.decoder) = << 28, 28, 1 >>

C6_Witness == last.args = ScenarioConfig /\ vae # NoModel /\ last.err = "none"

\* ------------------------------------------------------------------------ C9
\* C9: a decoder built for n >= 1 layers holds exactly n transposed
\* convolutions: for l = n-1 down to 1 one with (filters[l], kernels[l],
\* strides[l]) followed by ReLU and BatchNormalization, then one with 1 filter,
\* kernels[0] and strides[0] followed by the sigmoid; its output has channel
\* depth 1, and its strides are the encoder's strides in reverse order.
C9_DecoderMirrorsEncoder ==
    (vae # NoModel /\ vae.n_conv_layers >= 1) =>
        LET n == vae.n_conv_layers
            d == vae.decoder
            up == LayersOfKind(d, "Conv2DTranspose")
            down == LayersOfKind(vae.encoder, "Conv2D")
        IN  /\ Len(up) = n
            /\ \A i \in 1..(n - 1) :
                 /\ up[i].args = << vae.filters[n + 1 - i], vae.kernels[n + 1 - i],
                                    vae.strides[n + 1 - i] >>
                 /\ d[3 * i + 1] = up[i]
                 /\ d[3 * i + 2].kind = "ReLU"
                 /\ d[3 * i + 3].kind = "BatchNormalization"
            /\ up[n].args = << 1, vae.kernels[1], vae.strides[1] >>
            /\ d[Len(d) - 1] = up[n]
            /\ d[Len(d)].kind = "Activation"
            /\ Len(d) = 3 * n + 2
            /\ vae.model.output_shape[3] = 1
            /\ [i \in 1..n |-> up[i].args[3]] = Reverse([i \in 1..n |-> down[i].args[3]])

C9_Witness ==
    /\ vae # NoModel
    /\ vae.n_conv_layers = 2
    /\ vae.input_shape[3] = 3
    /\ vae.strides[1] # vae.strides[2]
    /\ vae.filters[1] # vae.filters[2]

\* ----------------------------------------------------------------------- C10
\* C10: for n >= 1 layers shape_before_ls is (h_n, w_n, filters[n-1]) with
\* h_(l+1) = ceil(h_l / strides[l]), whatever the kernels; the decoder's Dense
\* layer has h_n * w_n * filters[n-1] units; the output's height and width are
\* h_n and w_n times the product of the strides; so each equals the input's
\* exactly when every stride divides the size it is applied to, and is
\* strictly larger otherwise.
C10_ShapeArithmetic ==
    (vae # NoModel /\ vae.n_conv_layers >= 1) =>
        LET n == vae.n_conv_layers
            hn == SizeAfter(vae.input_shape[1], vae.strides, n)
            wn == SizeAfter(vae.input_shape[2], vae.strides, n)
            out == vae.model.output_shape
        IN  /\ vae.shape_before_ls = << hn, wn, vae.filters[n] >>
            /\ vae.decoder[2].kind = "Dense"
            /\ vae.decoder[2].args = << hn * wn * vae.filters[n] >>
            /\ out[1] = hn * ProductOf(vae.strides, n)
            /\ out[2] = wn * ProductOf(vae.strides, n)
            /\ (out[1] = vae.input_shape[1])
                  <=> EveryStrideDivides(vae.input_shape[1], vae.strides, n)
            /\ (out[2] = vae.input_shape[2])
                  <=> EveryStrideDivides(vae.input_shape[2], vae.strides, n)
            /\ out[1] >= vae.input_shape[1]
            /\ out[2] >= vae.input_shape[2]

C10_Witness ==
    /\ vae # NoModel
    /\ vae.n_conv_layers = 2
    /\ vae.model.output_shape[1] > vae.input_shape[1]
    /\ vae.model.output_shape[2] = vae.input_shape[2]
    /\ vae.strides[2] > 1

\* ------------------------------------------------------------------------ C3
\* C3: a load that follows a save returns an object whose five Configuration
\* fields and whose weights, network by network, are those of the saved
\* object; and, whatever was called in between, save writes the fields and
\* weights of the object it is called on, only save writes the folder, and a
\* load that returns gives an object with the fields and weights the folder holds.
C3_SaveLoadRoundTrip ==
    [][ /\ (last.op = "save" /\ last'.op = "load") =>
              /\ last'.err = "none"
              /\ ConfigurationOf(vae') = ConfigurationOf(vae)
              /\ vae'.model.weights = vae.model.weights
        /\ (last'.op = "save") =>
              /\ folder'.params = ConfigurationOf(vae)
              /\ folder'.weights.encoder.value = vae.model.weights.encoder
              /\ folder'.weights.decoder.value = vae.model.weights.decoder
        /\ (folder' # folder) => last'.op = "save"
        /\ (last'.op = "load" /\ last'.err = "none") =>
              /\ ConfigurationOf(vae') = folder.params
              /\ vae'.model.weights.encoder = folder.weights.encoder.value
              /\ vae'.model.weights.decoder = folder.weights.decoder.value
      ]_vars

\* A load returned an object with trained weights, which only a save after a
\* train can have put in the folder.
C3_Witness ==
    /\ last.op = "load"
    /\ last.err = "none"
    /\ vae.model.weights = [encoder |-> 1, decoder |-> 1]
    /\ folder.weights.encoder.value = 1

\* ------------------------------------------------------------------------ C4
\* C4: a train call changes the weights only of a compiled model; a model is
\* compiled only by a compile call on it, so the object the constructor or load
\* returns is not compiled; and train on a model that is not compiled raises
\* and leaves the object as it was.
C4_CompilePrecedesTrain ==
    [][ /\ (last'.op = "train" /\ vae'.model.weights # vae.model.weights)
              => vae.model.compiled
        /\ (last'.op = "train" /\ ~ vae.model.compiled)
              => (vae' = vae /\ last'.err # "none")
        /\ (last'.op \in {"__init__", "load"} /\ last'.err = "none")
              => ~ vae'.model.compiled
        /\ (vae' # NoModel /\ vae'.model.compiled /\ last'.op # "compile")
              => (vae # NoModel /\ vae.model.compiled)
      ]_vars

\* train was called on the object load returned, before any compile.
C4_Witness ==
    /\ last.op = "train"
    /\ last.err = "RuntimeError"
    /\ folder.weights # NoWeights
    /\ vae.model.weights = [encoder |-> folder.weights.encoder.value,
                            decoder |-> folder.weights.decoder.value]
    /\ vae.model.weights # ZeroWeights

\* ------------------------------------------------------------------------ C5
\* C5: load raises whenever params.pkl or weights.h5 is missing; a load that
\* raises gives no object, the caller keeping what it held; and a load returns
\* only after it read params.pkl, rebuilt the graph from it and loaded the
\* weights, in that order.
C5_LoadIsAllOrNothing ==
    [][ (last'.op = "load") =>
          /\ (folder.params = NoParams \/ folder.weights = NoWeights)
                => last'.err # "none"
          /\ (last'.err # "none") => vae' = vae
          /\ (last'.err = "none") =>
                last'.log = << "open params.pkl", "__init__", "build_model",
                               "build_encoder", "build_decoder", "build_vae",
                               "load_weights", "return" >>
      ]_vars

\* load raised on a folder that holds params.pkl but no weights.h5.
C5_Witness ==
    /\ last.op = "load"
    /\ last.err = "OSError"
    /\ folder.params # NoParams
    /\ folder.weights = NoWeights

\* ------------------------------------------------------------------------ C8
\* C8: compile, train and save leave input_shape, filters, kernels, strides,
\* latent_space_shape, n_conv_layers and shape_before_ls of the object as they
\* were, and save writes exactly the first five, in that order, to params.pkl.
C8_ConfigurationImmutable ==
    [][ (last'.op \in {"compile", "train", "save"}) =>
          /\ ConfigurationOf(vae') = ConfigurationOf(vae)
          /\ vae'.n_conv_layers = vae.n_conv_layers
          /\ vae'.shape_before_ls = vae.shape_before_ls
          /\ (last'.op = "save") =>
                /\ Len(folder'.params) = 5
                /\ folder'.params[1] = vae.input_shape
                /\ folder'.params[2] = vae.filters
                /\ folder'.params[3] = vae.kernels
                /\ folder'.params[4] = vae.strides
                /\ folder'.params[5] = vae.latent_space_shape
      ]_vars

\* A compiled and trained two-layer model was saved.
C8_Witness ==
    /\ last.op = "save"
    /\ vae.model.compiled
    /\ vae.model.weights.encoder = 1
    /\ vae.n_conv_layers = 2
    /\ folder.params = ConfigurationOf(vae)

\* ------------------------------------------------------------------------ C7
\* C7: the sampling layer gives z = mu + exp(sigma / 2) * eps element by
\* element: where mu = 0 and sigma = 0 the element of z is the element of eps,
\* where sigma = 0 it is mu + eps, and where sigma = 2 ln 2 (a variance of 4,
\* a standard deviation of 2) it is mu + 2 * eps.
C7_SamplingLayer ==
    (sample.z # << >>) =>
        /\ Len(sample.z) = Len(sample.mu)
        /\ \A i \in 1..Len(sample.z) :
             /\ (sample.mu[i] = 0 /\ sample.sigma[i] = 0) => sample.z[i] = sample.eps[i]
             /\ (sample.sigma[i] = 0) => sample.z[i] = sample.mu[i] + sample.eps[i]
             /\ (sample.sigma[i] = 2) => sample.z[i] = sample.mu[i] + 2 * sample.eps[i]

\* The layer was applied to mu = 0, sigma = 0 with a draw of two different
\* non-zero elements.
C7_Witness ==
    /\ sample.mu = << 0, 0 >>
    /\ sample.sigma = << 0, 0 >>
    /\ sample.eps = << 1, 0 - 1 >>
    /\ sample.z = sample.eps

====
